---- MODULE Spec2Model ----
(***************************************************************************)
(* Verification model of kitsuyome/mento_vc.                               *)
(*                                                                         *)
(*  Part I   the record store merge, LinkedInMultiPageSearch.save_results  *)
(*           (src/linkedin_yc_search.py), with the CSV round trip of       *)
(*           data.csv and the write of the file step by step.              *)
(*  Part II  the browser session life cycle and the per-record retry loops *)
(*           of YCScraperUniversal (src/yc_scraper.py) and LinkedInScraper *)
(*           (src/linkedin_scraper.py), with the reading of the input      *)
(*           table and the partial files of the batch loops.               *)
(*  Part III search_all_pages and the scroll loop of search_page           *)
(*           (src/linkedin_yc_search.py).                                  *)
(*  Part IV  the text extractors: extract_followers_count and              *)
(*           check_yc_batch_indicator (src/linkedin_scraper.py) and the    *)
(*           tags of a detail page (src/yc_scraper.py).                    *)
(*  Part V   get_all_company_urls scroll by scroll, save_to_csv, and one   *)
(*           call of scrape_linkedin_company on any URL.                   *)
(*                                                                         *)
(* Strings are sequences of one-character strings, so that strip() and     *)
(* lower() are computed and not assumed.                                   *)
(***************************************************************************)
EXTENDS Integers, Sequences, FiniteSets, TLC

VARIABLES
    data_csv,       \* the persisted store: [exists, rows], rows of text cells
    mpc,            \* save_results: "idle" | "writing" | "crashed"
    companies,      \* argument of the current / last save_results call
    new_companies,  \* candidates the current / last call accepted
    prev_csv,       \* data_csv as it was when the current / last call began
    pending,        \* rows of combined_df that to_csv has not yet written
    completed,      \* the last call ran to its return
    repeat          \* the current / last call repeats the completed call before it

VARIABLES
    scraper,        \* the program that runs: "yc" (YCScraperUniversal) | "li" (LinkedInScraper)
    urls,           \* number of input records of the batch
    spc,            \* "listing" | "scrolling" | "collect" | "reading" | "call" |
                    \*   "loop" | "setup" | "try" | "finally" | "done" | "raised"
    rec,            \* index of the record being processed (0 before the first)
    attempt,        \* the retry loop's variable, from 0
    driver,         \* self.driver: 0 for None, else the session it refers to
    born,           \* the record and attempt in which the session of self.driver was created
    nsessions,      \* the highest session name in use; a session started in a
                    \*   record is named by the next number
    live,           \* the sessions started and not yet quit
    outcome,        \* how the current attempt ended: [end, fields]
    slept,          \* the backoff sleep has run since the current attempt began
    starts,         \* the attempts begun on this record: [attempt, backoff]
    navs,           \* the navigations made on this record:
                    \*   [rec, attempt, sid, born, end, fields]
    results,        \* the records the batch loop has emitted:
                    \*   [rec, success, fields, error]
    files           \* the output files written: [kind, upto, records]

VARIABLES
    gpc,            \* search_all_pages: "start" | "login" | "pages" | "scrolling" |
                    \*   "final" | "done"
    browser,        \* the one session of the search: "none" | "open" | "closed"
    page_num,       \* the page last given to search_page (0 before the first)
    gate,           \* how the wait for content ended: "none" | "loaded" | "timeout"
    initial_count,  \* markers counted before the first scroll round
    current_count,  \* markers counted at the end of the last scroll round
    scroll_round,   \* scroll rounds run on this page
    round_scrolls,  \* scroll calls of the last round that ran to its count
    engine,         \* "Loading" | "Scrolling" | "Converged" | "Exhausted" | "Error"
    refreshes,      \* driver.refresh() calls on this page
    reloaded,       \* the last scroll round ended with driver.refresh()
    unchanged,      \* the last rounds, in a row, whose count equalled the count before
    changed,        \* some round of this page counted other than initial_count
    final_yc_count, \* markers of the text read after the loop
    returned        \* what search_page returned: "none" | "text" (the companies
                    \*   extracted from the text read after the loop) | "empty"

VARIABLES
    last_count,     \* get_all_company_urls: the links counted after the last scroll
                    \*   that changed the count (0 before the first)
    scroll_attempts,\* the scrolls that changed the count
    link_count,     \* current_count of get_all_company_urls: the links counted
                    \*   after the last scroll
    rose            \* every scroll counted in scroll_attempts raised the count

VARIABLES
    scraped,        \* the records given to save_to_csv
    yc_csv          \* save_to_csv and its file: [called, exists, rows]

VARIABLES
    call,           \* the extractor called and its arguments: [fn, text, label]
    answer          \* what the call gave: [done, raised, found, value, tags, joined]

mvars == <<data_csv, mpc, companies, new_companies, prev_csv, pending, completed, repeat>>

svars == <<scraper, urls, spc, rec, attempt, driver, born, nsessions, live, outcome,
           slept, starts, navs, results, files>>

pvars == <<gpc, browser, page_num, gate, initial_count, current_count, scroll_round,
           round_scrolls, engine, refreshes, reloaded, unchanged, changed, final_yc_count, returned>>

xvars == <<call, answer>>

lvars == <<last_count, scroll_attempts, link_count, rose>>

cvars == <<scraped, yc_csv>>

vars == <<mvars, svars, pvars, xvars, lvars, cvars>>

----------------------------------------------------------------------------
(* Bounds of the model *)

\* longest candidate list handed to save_results
MaxCand == 2

\* most rows data.csv is let grow to
MaxRows == 3

\* most input records of a scraping run
MaxRecords == 2

----------------------------------------------------------------------------
(* Text *)

\* str.lower() on one character
LowerChar(c) ==
    CASE c = "A" -> "a"
      [] c = "B" -> "b"
      [] c = "X" -> "x"
      [] OTHER -> c

\* str.lower()
Lower(s) == [i \in 1..Len(s) |-> LowerChar(s[i])]

IsSpace(c) == c = " "

RECURSIVE LStrip(_)
LStrip(s) == IF s # <<>> /\ IsSpace(Head(s)) THEN LStrip(Tail(s)) ELSE s

RECURSIVE RStrip(_)
RStrip(s) ==
    IF s # <<>> /\ IsSpace(s[Len(s)]) THEN RStrip(SubSeq(s, 1, Len(s) - 1)) ELSE s

\* str.strip()
Strip(s) == RStrip(LStrip(s))

\* the identity key of the merge: s.strip().lower()
Normalize(s) == Lower(Strip(s))

----------------------------------------------------------------------------
(* The CSV round trip of pandas *)

\* the missing value of a DataFrame cell
NaN == <<"NaN">>

\* pd.notna
notna(v) == v # NaN

\* read_csv: an empty field is read as a missing value
ParseCell(c) == IF c = <<>> THEN NaN ELSE c

\* to_csv: a missing value is written as an empty field
FormatCell(v) == IF v = NaN THEN <<>> ELSE v

ParseRow(r) == [Title |-> ParseCell(r.Title), Link |-> ParseCell(r.Link),
                Desc |-> ParseCell(r.Desc)]

FormatRow(r) == [Title |-> FormatCell(r.Title), Link |-> FormatCell(r.Link),
                 Desc |-> FormatCell(r.Desc)]

\* df = pd.read_csv('data.csv'); FileNotFoundError gives the empty DataFrame
read_csv(f) == IF f.exists THEN [i \in 1..Len(f.rows) |-> ParseRow(f.rows[i])] ELSE <<>>

\* the rows to_csv writes for a DataFrame
to_csv(df) == [i \in 1..Len(df) |-> FormatRow(df[i])]

----------------------------------------------------------------------------
(* save_results: the duplicate filter *)

\* existing_companies: Title.strip().lower() of the rows whose Title is not missing
existing_companies(df) ==
    {Normalize(df[i].Title) : i \in {j \in 1..Len(df) : notna(df[j].Title)}}

\* existing_links: the same of the links that are not missing and not blank
existing_links(df) ==
    {Normalize(df[i].Link) :
        i \in {j \in 1..Len(df) : notna(df[j].Link) /\ Strip(df[j].Link) # <<>>}}

\* title_lower in existing_companies
is_duplicate_title(company, titles) == Normalize(company.title) \in titles

\* link_lower and link_lower in existing_links
is_duplicate_link(company, links) ==
    /\ Normalize(company.linkedin_url) # <<>>
    /\ Normalize(company.linkedin_url) \in links

\* (a filter that rejects only a candidate that matches on title and on link)
IsNewUnlessBoth(company, titles, links) ==
    ~(is_duplicate_title(company, titles) /\ is_duplicate_link(company, links))

\* if not is_duplicate_title and not is_duplicate_link
IsNew(company, titles, links) ==
    /\ ~is_duplicate_title(company, titles)
    /\ ~is_duplicate_link(company, links)

\* the loop over the candidates: both sets are those loaded from the file,
\* and the loop adds nothing to them
FilterNew(cands, df) ==
    LET titles == existing_companies(df)
        links == existing_links(df)
    IN SelectSeq(cands, LAMBDA c : IsNew(c, titles, links))

\* the row new_data holds for an accepted candidate: the other columns are ''
NewRow(company) ==
    [Title |-> company.title, Link |-> company.linkedin_url, Desc |-> <<>>]

\* (a conversion that takes the accepted candidates last first)
new_dfReversed(accepted) ==
    [i \in 1..Len(accepted) |-> NewRow(accepted[Len(accepted) + 1 - i])]

\* new_df = pd.DataFrame(new_data)
new_df(accepted) == [i \in 1..Len(accepted) |-> NewRow(accepted[i])]

\* (a merge that writes the new rows before the old ones)
combined_dfNewFirst(df, accepted) == new_df(accepted) \o df

\* pd.concat([df, new_df]) when df is not empty, new_df otherwise
combined_df(df, accepted) == IF df # <<>> THEN df \o new_df(accepted) ELSE new_df(accepted)

----------------------------------------------------------------------------
(* Inputs *)

\* the candidates the model hands to save_results
Acme      == [title |-> <<"A">>,      linkedin_url |-> <<"x">>]
AcmeOther == [title |-> <<" ", "a">>, linkedin_url |-> <<"y">>]
Beta      == [title |-> <<"B">>,      linkedin_url |-> <<>>]
NoTitle   == [title |-> <<>>,         linkedin_url |-> <<"X", " ">>]
Blank     == [title |-> <<>>,         linkedin_url |-> <<>>]

Candidates == {Acme, AcmeOther, Beta, NoTitle, Blank}

CandidateLists == UNION {[1..n -> Candidates] : n \in 0..MaxCand}

\* rows data.csv may hold before the first merge (written by an earlier run)
\* (every one with a description, and one whose title and link are blanks)
InitRows ==
    {[Title |-> c.title, Link |-> c.linkedin_url, Desc |-> <<"d">>] : c \in Candidates}
        \cup {[Title |-> <<" ">>, Link |-> <<" ">>, Desc |-> <<"d">>]}

\* the stores the model starts from: no file, or a file of at most one row
InitStores ==
    {[exists |-> FALSE, rows |-> <<>>], [exists |-> TRUE, rows |-> <<>>]}
        \cup {[exists |-> TRUE, rows |-> <<r>>] : r \in InitRows}

----------------------------------------------------------------------------
(* save_results *)

MergeInit ==
    /\ data_csv \in InitStores
    /\ mpc = "idle"
    /\ companies = <<>>
    /\ new_companies = <<>>
    /\ prev_csv = data_csv
    /\ pending = <<>>
    /\ completed = FALSE
    /\ repeat = FALSE

\* save_results(cands) from its entry to its return, or to the point where
\* to_csv has opened data.csv for writing (which truncates the file)
save_results(cands) ==
    /\ mpc = "idle"
    /\ Len(data_csv.rows) + Len(cands) <= MaxRows
    /\ companies' = cands
    /\ prev_csv' = data_csv
    /\ repeat' = (completed /\ cands = companies)
    /\ IF cands = <<>>
       THEN \* if not companies: return
            /\ new_companies' = <<>>
            /\ completed' = TRUE
            /\ UNCHANGED <<data_csv, mpc, pending>>
       ELSE LET df == read_csv(data_csv)
                accepted == FilterNew(cands, df)
            IN /\ new_companies' = accepted
               /\ IF accepted = <<>>
                  THEN \* if not new_companies: return
                       /\ completed' = TRUE
                       /\ UNCHANGED <<data_csv, mpc, pending>>
                  ELSE \* combined_df.to_csv('data.csv'): open(..., 'w')
                       /\ data_csv' = [exists |-> TRUE, rows |-> <<>>]
                       /\ pending' = to_csv(combined_df(df, accepted))
                       /\ mpc' = "writing"
                       /\ completed' = FALSE
    /\ UNCHANGED <<svars, pvars, xvars, lvars, cvars>>

SaveResults == \E cands \in CandidateLists : save_results(cands)

\* to_csv writes the next row
WriteRow ==
    /\ mpc = "writing"
    /\ pending # <<>>
    /\ data_csv' = [data_csv EXCEPT !.rows = Append(@, Head(pending))]
    /\ pending' = Tail(pending)
    /\ UNCHANGED <<mpc, companies, new_companies, prev_csv, completed, repeat>>
    /\ UNCHANGED <<svars, pvars, xvars, lvars, cvars>>

\* to_csv closes the file and save_results returns len(new_companies)
WriteDone ==
    /\ mpc = "writing"
    /\ pending = <<>>
    /\ mpc' = "idle"
    /\ completed' = TRUE
    /\ UNCHANGED <<data_csv, companies, new_companies, prev_csv, pending, repeat>>
    /\ UNCHANGED <<svars, pvars, xvars, lvars, cvars>>

\* the process dies while to_csv is writing
Crash ==
    /\ mpc = "writing"
    /\ mpc' = "crashed"
    /\ pending' = <<>>
    /\ UNCHANGED <<data_csv, companies, new_companies, prev_csv, completed, repeat>>
    /\ UNCHANGED <<svars, pvars, xvars, lvars, cvars>>

\* the program is run again after a crash: a new process, which knows
\* nothing of the calls of the one that died
Rerun ==
    /\ mpc = "crashed"
    /\ mpc' = "idle"
    /\ companies' = <<>>
    /\ new_companies' = <<>>
    /\ prev_csv' = data_csv
    /\ completed' = FALSE
    /\ repeat' = FALSE
    /\ UNCHANGED <<data_csv, pending>>
    /\ UNCHANGED <<svars, pvars, xvars, lvars, cvars>>

----------------------------------------------------------------------------
(* Browser sessions and the per-record retry loops *)

\* max_retries of extract_company_details_with_retry
YcMaxRetries == 3

\* max_retries of scrape_linkedin_company
LiMaxRetries == 2

max_retries == IF scraper = "yc" THEN YcMaxRetries ELSE LiMaxRetries

\* how setup_driver can end: webdriver.Chrome raises; Chrome starts and a later
\* call of the try block raises; every call succeeds
SetupOutcomes == {"no_browser", "config_failed", "ok"}

\* the fields of a record that the success test of the YC extraction reads,
\* and the follower count of a LinkedIn page; a field is in a set of fields
\* when the extraction gave it a non-empty value
YcExtractions ==
    {{"title"}, {"short_description"}, {"title", "short_description"},
     {"title", "company_link"}}

LiExtractions == {{}, {"followers_count"}}

\* how the try body can end, after driver.get was called: the page checks
\* stop it, a call raises, or the extraction runs to its end
TryOutcomes ==
    IF scraper = "yc"
    THEN {[end |-> e, fields |-> {}] : e \in {"page_404", "incomplete_page", "exception"}}
            \cup {[end |-> "extracted", fields |-> f] : f \in YcExtractions}
    ELSE {[end |-> e, fields |-> {}] : e \in {"not_found", "exception"}}
            \cup {[end |-> "extracted", fields |-> f] : f \in LiExtractions}

NoOutcome == [end |-> "none", fields |-> {}]

SetupFailed == [end |-> "setup_failed", fields |-> {}]

\* if "404" in self.driver.title or len(page_source) < 1000: continue
PageCheckRetries(end) == end \in {"page_404", "incomplete_page"}

\* (a test that is content with a title)
MeaningfulTitleOnly(data) == "title" \in data

\* if data['title'] and (data['short_description'] or data['company_link'])
Meaningful(data) ==
    "title" \in data /\ ("short_description" \in data \/ "company_link" \in data)

\* setup_driver begins with: if self.driver: try quit() except pass
QuitOld(sessions, drv) == IF drv # 0 THEN sessions \ {drv} ELSE sessions

\* (a setup_driver that keeps a session it already holds)
ChromeHandleKept(old, fresh) == IF old # 0 THEN old ELSE fresh

\* self.driver = webdriver.Chrome(...): the handle is the session just started
ChromeHandle(old, fresh) == fresh

\* the except branch of setup_driver: self.driver = None, with no quit()
FailedHandle(started) == 0

\* finally: if self.driver: self.driver.quit()
QuitCurrent(sessions, drv) == IF drv # 0 THEN sessions \ {drv} ELSE sessions

\* finally: if attempt < max_retries - 1: time.sleep(3)
BackoffSleeps(a) == a < max_retries - 1

\* (a loop that makes one attempt more)
MoreAttemptsOneExtra(a) == a < max_retries

\* for attempt in range(max_retries): the loop variable has a next value
MoreAttempts(a) == a + 1 < max_retries

\* what the retry operation returns: the dict `data` or None for the YC
\* extraction, the dict `result` with its 'error' entry for LinkedIn
Data(fields) == [none |-> FALSE, fields |-> fields, error |-> "absent"]

None == [none |-> TRUE, fields |-> {}, error |-> "absent"]

Result(fields, error) == [none |-> FALSE, fields |-> fields, error |-> error]

\* what the retry operation returns when its loop runs out
Exhausted == IF scraper = "yc" THEN None ELSE Result({}, "All attempts failed")

\* the record the batch loop appends for what the retry operation returned.
\* scrape_batch copies the fields of `details`, or, for None, writes a record
\* whose extracted fields are all '' (its Title is made from the URL); its
\* records have no error entry.  scrape_companies_linkedin copies the
\* follower count and 'error'.  `success` tells that the attempt that
\* returned had run its extraction to the end.
EmitRecord(r, success, ret) ==
    IF scraper = "yc"
    THEN [rec |-> r, success |-> success,
          fields |-> IF ret.none THEN {} ELSE ret.fields, error |-> "absent"]
    ELSE [rec |-> r, success |-> success, fields |-> ret.fields, error |-> ret.error]

\* if (i + 1) % 20 == 0 in scrape_batch, % 10 in scrape_companies_linkedin
YcSnapshotEvery == 20

LiSnapshotEvery == 10

snapshot_every == IF scraper = "yc" THEN YcSnapshotEvery ELSE LiSnapshotEvery

\* (a snapshot of the records that succeeded only)
SnapshotRowsSuccessful(records) == SelectSeq(records, LAMBDA r : r.success)

\* temp_df = pd.DataFrame(companies) / pd.DataFrame(results)
SnapshotRows(records) == records

\* the partial file the loop body writes after it has appended the record
\* of input i, when i is a multiple of the period
Snapshot(fs, before, after, i) ==
    IF after # before /\ i % snapshot_every = 0
    THEN fs \cup {[kind |-> "partial", upto |-> i, records |-> SnapshotRows(after)]}
    ELSE fs

\* results_df.to_csv('linkedin_company_data.csv')
FinalFile(records) == [kind |-> "final", upto |-> Len(records), records |-> records]

SessionInit ==
    /\ scraper \in {"yc", "li"}
    /\ urls = 0
    /\ spc = IF scraper = "yc" THEN "listing" ELSE "reading"
    /\ rec = 0
    /\ attempt = 0
    /\ driver = 0
    /\ born = [rec |-> 0, attempt |-> 0]
    /\ nsessions = 0
    /\ live = {}
    /\ outcome = NoOutcome
    /\ slept = FALSE
    /\ starts = {}
    /\ navs = {}
    /\ results = <<>>
    /\ files = {}

\* how the try body of get_all_company_urls can end
ListingOutcomes == {"urls", "no_filter", "exception"}

\* scrape_batch calls get_all_company_urls: one setup_driver, the listing
\* page, the quit of the finally block; an empty list ends scrape_batch
GetAllCompanyUrls(o, b, n, quitRaises) ==
    /\ spc = "listing"
    /\ starts' = {[attempt |-> 0, backoff |-> FALSE]}
    /\ LET old == QuitOld(live, driver)
           fresh == nsessions + 1
       IN CASE o = "no_browser" ->
                 /\ live' = old
                 /\ driver' = FailedHandle(0)
                 /\ outcome' = SetupFailed
                 /\ spc' = "done"
                 /\ UNCHANGED <<nsessions, born, urls>>
            [] o = "config_failed" ->
                 /\ nsessions' = fresh
                 /\ live' = old \cup {fresh}
                 /\ driver' = FailedHandle(fresh)
                 /\ outcome' = SetupFailed
                 /\ spc' = "done"
                 /\ UNCHANGED <<born, urls>>
            [] o = "ok" ->
                 /\ nsessions' = fresh
                 /\ driver' = ChromeHandle(driver, fresh)
                 /\ born' = [rec |-> 0, attempt |-> 0]
                 /\ live' = QuitCurrent(old \cup {fresh}, ChromeHandle(driver, fresh))
                 /\ outcome' = [end |-> b, fields |-> {}]
                 /\ IF quitRaises
                    THEN spc' = "raised" /\ UNCHANGED urls
                    ELSE IF b = "urls" /\ n > 0
                         THEN spc' = "loop" /\ urls' = n
                         ELSE spc' = "done" /\ UNCHANGED urls
    /\ UNCHANGED <<scraper, rec, attempt, slept, navs, results, files>>
    /\ UNCHANGED <<mvars, pvars, xvars, lvars, cvars>>

ListingStep ==
    \E o \in SetupOutcomes, b \in ListingOutcomes, n \in 0..MaxRecords,
       quitRaises \in BOOLEAN : GetAllCompanyUrls(o, b, n, quitRaises)

----------------------------------------------------------------------------
(* get_all_company_urls scroll by scroll *)

\* most links the listing page shows
MaxLinks == 50

max_scrolls == 50

\* (a test that also stops on a lower count)
StaysOrFalls(count, last) == count <= last

\* if current_count == last_count: break
Stays(count, last) == count = last

\* get_all_company_urls up to its scroll loop: setup_driver, the listing
\* page, the batch filter; last_count = 0, scroll_attempts = 0
OpenListing(o, b, quitRaises) ==
    /\ spc = "listing"
    /\ starts' = {[attempt |-> 0, backoff |-> FALSE]}
    /\ last_count' = 0
    /\ scroll_attempts' = 0
    /\ link_count' = 0
    /\ rose' = TRUE
    /\ LET old == QuitOld(live, driver)
           fresh == nsessions + 1
       IN CASE o = "no_browser" ->
                 /\ live' = old
                 /\ driver' = FailedHandle(0)
                 /\ outcome' = SetupFailed
                 /\ spc' = "done"
                 /\ UNCHANGED <<nsessions, born>>
            [] o = "config_failed" ->
                 /\ nsessions' = fresh
                 /\ live' = old \cup {fresh}
                 /\ driver' = FailedHandle(fresh)
                 /\ outcome' = SetupFailed
                 /\ spc' = "done"
                 /\ UNCHANGED born
            [] o = "ok" ->
                 /\ nsessions' = fresh
                 /\ driver' = ChromeHandle(driver, fresh)
                 /\ born' = [rec |-> 0, attempt |-> 0]
                 /\ IF b = "urls"
                    THEN /\ live' = old \cup {fresh}
                         /\ outcome' = NoOutcome
                         /\ spc' = "scrolling"
                    ELSE \* return [] through the finally block
                         /\ live' = QuitCurrent(old \cup {fresh}, ChromeHandle(driver, fresh))
                         /\ outcome' = [end |-> b, fields |-> {}]
                         /\ spc' = IF quitRaises THEN "raised" ELSE "done"
    /\ UNCHANGED <<scraper, urls, rec, attempt, slept, navs, results, files>>
    /\ UNCHANGED <<mvars, pvars, xvars, cvars>>

OpenListingStep ==
    \E o \in SetupOutcomes, b \in ListingOutcomes, quitRaises \in BOOLEAN :
        OpenListing(o, b, quitRaises)

\* one turn of while scroll_attempts < max_scrolls: the scroll, the count
\* of the links, the break or the counting of the scroll
ListingScroll(count, raises, quitRaises) ==
    /\ spc = "scrolling"
    /\ IF raises
       THEN \* except Exception: return [], through the finally block
            /\ live' = QuitCurrent(live, driver)
            /\ outcome' = [end |-> "exception", fields |-> {}]
            /\ spc' = IF quitRaises THEN "raised" ELSE "done"
            /\ UNCHANGED lvars
       ELSE /\ link_count' = count
            /\ UNCHANGED <<live, outcome>>
            /\ IF Stays(count, last_count)
               THEN /\ spc' = "collect"
                    /\ UNCHANGED <<last_count, scroll_attempts, rose>>
               ELSE /\ last_count' = count
                    /\ scroll_attempts' = scroll_attempts + 1
                    /\ rose' = (rose /\ count > last_count)
                    /\ spc' = IF scroll_attempts + 1 < max_scrolls
                              THEN "scrolling" ELSE "collect"
    /\ UNCHANGED <<scraper, urls, rec, attempt, driver, born, nsessions, slept, starts,
                   navs, results, files>>
    /\ UNCHANGED <<mvars, pvars, xvars, cvars>>

ListingScrollStep ==
    \E count \in 0..MaxLinks, raises \in BOOLEAN, quitRaises \in BOOLEAN :
        ListingScroll(count, raises, quitRaises)

\* get_all_company_urls after the loop: the links read again, their URLs
\* kept, the return through the finally block
CollectUrls(n, raises, quitRaises) ==
    /\ spc = "collect"
    /\ live' = QuitCurrent(live, driver)
    /\ outcome' = [end |-> IF raises THEN "exception" ELSE "urls", fields |-> {}]
    /\ IF quitRaises
       THEN spc' = "raised" /\ UNCHANGED urls
       ELSE IF ~raises /\ n > 0
            THEN spc' = "loop" /\ urls' = n
            ELSE spc' = "done" /\ UNCHANGED urls
    /\ UNCHANGED <<scraper, rec, attempt, driver, born, nsessions, slept, starts, navs,
                   results, files>>
    /\ UNCHANGED <<mvars, pvars, xvars, lvars, cvars>>

CollectUrlsStep ==
    \E n \in 0..MaxRecords, raises \in BOOLEAN, quitRaises \in BOOLEAN :
        CollectUrls(n, raises, quitRaises)

\* how the reading of the input table can end: no file, a table without
\* the 'Linkedin Link' column, a table without a link, a table with links
InputOutcomes == {"missing_file", "no_link_column", "no_links", "links"}

\* scrape_companies_linkedin, from pd.read_csv(csv_file) to the loop
ReadInput(o, n) ==
    /\ spc = "reading"
    /\ outcome' = [end |-> o, fields |-> {}]
    /\ IF o = "links"
       THEN urls' = n /\ spc' = "loop"
       ELSE \* return
            urls' = urls /\ spc' = "done"
    /\ UNCHANGED <<scraper, rec, attempt, driver, born, nsessions, live, slept, starts,
                   navs, results, files>>
    /\ UNCHANGED <<mvars, pvars, xvars, lvars, cvars>>

ReadInputStep == \E o \in InputOutcomes, n \in 1..MaxRecords : ReadInput(o, n)

\* The name of a session matters only while self.driver or a recorded
\* navigation refers to it.  Between two records the navigations are
\* forgotten, so the sessions are renamed, keeping them distinct: those still
\* running become 1..k and the quit session self.driver may still refer to
\* becomes k + 1.
RenamedLive(sessions) == 1..Cardinality(sessions)

RenamedHandle(sessions, drv) == IF drv = 0 THEN 0 ELSE Cardinality(sessions) + 1

\* the loop of scrape_batch / scrape_companies_linkedin calls the retry
\* operation for the next record
BeginRecord ==
    /\ spc = "loop"
    /\ rec < urls
    /\ rec' = rec + 1
    /\ attempt' = 0
    /\ spc' = "setup"
    /\ slept' = FALSE
    /\ starts' = {}
    /\ navs' = {}
    /\ outcome' = NoOutcome
    /\ live' = RenamedLive(live)
    /\ driver' = RenamedHandle(live, driver)
    /\ nsessions' = IF driver = 0 THEN Cardinality(live) ELSE Cardinality(live) + 1
    /\ UNCHANGED <<scraper, urls, born, results, files>>
    /\ UNCHANGED <<mvars, pvars, xvars, lvars, cvars>>

\* the batch loop has run over every record: scrape_batch returns the
\* records, scrape_companies_linkedin writes them to its output file
FinishBatch ==
    /\ spc = "loop"
    /\ rec = urls
    /\ spc' = "done"
    /\ files' = IF scraper = "li" THEN files \cup {FinalFile(results)} ELSE files
    /\ UNCHANGED <<scraper, urls, rec, attempt, driver, born, nsessions, live, outcome,
                   slept, starts, navs, results>>
    /\ UNCHANGED <<mvars, pvars, xvars, lvars, cvars>>

\* the loop statement `continue`, or the end of the loop body: the next
\* attempt, or the return after the loop when there is none
NextAttempt ==
    IF MoreAttempts(attempt)
    THEN /\ attempt' = attempt + 1
         /\ spc' = "setup"
         /\ UNCHANGED results
    ELSE /\ spc' = "loop"
         /\ results' = Append(results, EmitRecord(rec, FALSE, Exhausted))
         /\ UNCHANGED attempt

\* an attempt begins: if not self.setup_driver(): continue
SetupDriver(o) ==
    /\ spc = "setup"
    /\ starts' = starts \cup {[attempt |-> attempt, backoff |-> slept]}
    /\ slept' = FALSE
    /\ outcome' = IF o = "ok" THEN NoOutcome ELSE SetupFailed
    /\ LET old == QuitOld(live, driver)
           fresh == nsessions + 1
       IN CASE o = "no_browser" ->
                 /\ live' = old
                 /\ driver' = FailedHandle(0)
                 /\ UNCHANGED <<nsessions, born>>
                 /\ NextAttempt
            [] o = "config_failed" ->
                 /\ nsessions' = fresh
                 /\ live' = old \cup {fresh}
                 /\ driver' = FailedHandle(fresh)
                 /\ UNCHANGED born
                 /\ NextAttempt
            [] o = "ok" ->
                 /\ nsessions' = fresh
                 /\ live' = old \cup {fresh}
                 /\ driver' = ChromeHandle(driver, fresh)
                 /\ born' = IF ChromeHandle(driver, fresh) = fresh
                            THEN [rec |-> rec, attempt |-> attempt]
                            ELSE born
                 /\ spc' = "try"
                 /\ UNCHANGED <<attempt, results>>
    /\ files' = Snapshot(files, results, results', rec)
    /\ UNCHANGED <<scraper, urls, rec, navs>>
    /\ UNCHANGED <<mvars, pvars, xvars, lvars, cvars>>

SetupDriverStep == \E o \in SetupOutcomes : SetupDriver(o)

\* the try body: self.driver.get(url), then the page checks and the extraction
TryBody(o) ==
    /\ spc = "try"
    /\ navs' = navs \cup {[rec |-> rec, attempt |-> attempt, sid |-> driver, born |-> born,
                            end |-> o.end, fields |-> o.fields]}
    /\ outcome' = o
    /\ spc' = "finally"
    /\ UNCHANGED <<scraper, urls, rec, attempt, driver, born, nsessions, live, slept,
                   starts, results, files>>
    /\ UNCHANGED <<mvars, pvars, xvars, lvars, cvars>>

TryBodyStep == \E o \in TryOutcomes : TryBody(o)

\* the finally block, and then where the try body was going
Finally(quitRaises) ==
    /\ spc = "finally"
    /\ live' = QuitCurrent(live, driver)
    /\ IF quitRaises
       THEN \* the exception of quit() leaves the operation and its callers
            /\ spc' = "raised"
            /\ UNCHANGED <<attempt, slept, results>>
       ELSE /\ slept' = BackoffSleeps(attempt)
            /\ CASE outcome.end = "extracted" /\ scraper = "yc"
                        /\ Meaningful(outcome.fields) ->
                      \* return data
                      /\ spc' = "loop"
                      /\ results' = Append(results,
                                        EmitRecord(rec, TRUE, Data(outcome.fields)))
                      /\ UNCHANGED attempt
                 [] outcome.end = "extracted" /\ scraper = "li" ->
                      \* return result, its 'error' None
                      /\ spc' = "loop"
                      /\ results' = Append(results,
                                        EmitRecord(rec, TRUE, Result(outcome.fields, "")))
                      /\ UNCHANGED attempt
                 [] outcome.end = "not_found" ->
                      /\ spc' = "loop"
                      /\ results' = Append(results,
                                        EmitRecord(rec, FALSE, Result({}, "Page not found")))
                      /\ UNCHANGED attempt
                 [] outcome.end = "exception" /\ scraper = "li"
                        /\ attempt = max_retries - 1 ->
                      \* 'error': str(e)[:100]
                      /\ spc' = "loop"
                      /\ results' = Append(results,
                                        EmitRecord(rec, FALSE, Result({}, "exception text")))
                      /\ UNCHANGED attempt
                 [] PageCheckRetries(outcome.end) ->
                      \* continue
                      NextAttempt
                 [] OTHER ->
                      \* the data was incomplete, or the except branch
                      \* only printed
                      NextAttempt
    /\ files' = Snapshot(files, results, results', rec)
    /\ UNCHANGED <<scraper, urls, rec, driver, born, nsessions, outcome, starts, navs>>
    /\ UNCHANGED <<mvars, pvars, xvars, lvars, cvars>>

FinallyStep == \E quitRaises \in BOOLEAN : Finally(quitRaises)

----------------------------------------------------------------------------
(* A call of scrape_linkedin_company on any URL *)

\* the URLs the operation is called with: '', the missing value of a table
\* cell, a blank, a link
CompanyUrls == {<<>>, NaN, <<" ">>, <<"l", "i">>}

\* (a test that knows the empty text only)
NoUrlEmptyOnly(url) == url = <<>>

\* not linkedin_url or pd.isna(linkedin_url) or linkedin_url == ''
NoUrl(url) == url = <<>> \/ ~notna(url)

\* scrape_linkedin_company is about to be called
CompanyInit ==
    /\ scraper = "li"
    /\ urls = 1
    /\ spc = "call"
    /\ rec = 0
    /\ attempt = 0
    /\ driver = 0
    /\ born = [rec |-> 0, attempt |-> 0]
    /\ nsessions = 0
    /\ live = {}
    /\ outcome = NoOutcome
    /\ slept = FALSE
    /\ starts = {}
    /\ navs = {}
    /\ results = <<>>
    /\ files = {}
    /\ call \in {[fn |-> "company", text |-> u, label |-> <<>>] : u \in CompanyUrls}
    /\ answer = [done |-> FALSE, raised |-> FALSE, found |-> FALSE, value |-> 0,
                 tags |-> <<>>, joined |-> <<>>]

\* the entry of scrape_linkedin_company: the result returned at once for
\* no URL (no follower count, no indicator), or the retry loop
ScrapeLinkedinCompany ==
    /\ spc = "call"
    /\ rec' = 1
    /\ IF NoUrl(call.text)
       THEN /\ spc' = "loop"
            /\ results' = Append(results,
                              EmitRecord(1, FALSE, Result({}, "No LinkedIn URL provided")))
       ELSE /\ spc' = "setup"
            /\ UNCHANGED results
    /\ UNCHANGED <<scraper, urls, attempt, driver, born, nsessions, live, outcome, slept,
                   starts, navs, files>>
    /\ UNCHANGED <<mvars, pvars, xvars, lvars, cvars>>

----------------------------------------------------------------------------
(* The batch loop over many records: the retry operation is one step, its  *)
(* return value an input                                                   *)

\* most input records of a long batch
MaxBatch == 21

\* most records of a long batch that fail
MaxFailures == 2

\* what the retry operation can return for a record: the data of a page, or
\* what it returns when its loop runs out
RecordReturns ==
    IF scraper = "yc"
    THEN {[success |-> TRUE, ret |-> Data({"title", "short_description"})],
          [success |-> FALSE, ret |-> None]}
    ELSE {[success |-> TRUE, ret |-> Result({"followers_count"}, "")],
          [success |-> FALSE, ret |-> Result({}, "All attempts failed")]}

Failures(records) == Cardinality({i \in 1..Len(records) : ~records[i].success})

\* the loop has the URLs of a long batch and is about to take the first
BatchInit ==
    /\ scraper \in {"yc", "li"}
    /\ urls \in {MaxBatch - 1, MaxBatch}
    /\ spc = "loop"
    /\ rec = 0
    /\ attempt = 0
    /\ driver = 0
    /\ born = [rec |-> 0, attempt |-> 0]
    /\ nsessions = 0
    /\ live = {}
    /\ outcome = NoOutcome
    /\ slept = FALSE
    /\ starts = {}
    /\ navs = {}
    /\ results = <<>>
    /\ files = {}

\* one pass of the loop body of scrape_batch / scrape_companies_linkedin:
\* the call of the retry operation, the record appended for what it
\* returned, the partial file; or the exception that the call lets through
ScrapeRecord(o, raises) ==
    /\ spc = "loop"
    /\ rec < urls
    /\ rec' = rec + 1
    /\ IF raises
       THEN /\ spc' = "raised"
            /\ UNCHANGED <<results, files>>
       ELSE /\ o.success \/ Failures(results) < MaxFailures
            /\ results' = Append(results, EmitRecord(rec + 1, o.success, o.ret))
            /\ files' = Snapshot(files, results, results', rec + 1)
            /\ UNCHANGED spc
    /\ UNCHANGED <<scraper, urls, attempt, driver, born, nsessions, live, outcome, slept,
                   starts, navs>>
    /\ UNCHANGED <<mvars, pvars, xvars, lvars, cvars>>

ScrapeRecordStep == \E o \in RecordReturns, raises \in BOOLEAN : ScrapeRecord(o, raises)

----------------------------------------------------------------------------
(* The multi-page search and the scroll loop of a page *)

\* for page_num in range(1, 11)
NumPages == 10

\* for scroll_round in range(20)
MaxRounds == 20

\* if current_count >= 10
ExpectedMinimum == 10

\* if scroll_round > 5 and ...
StallRound == 5

\* for step in range(10)
IncrementalSteps == 10

\* for bottom_scroll in range(5)
BottomScrolls == 5

\* (a round that scrolls to the bottom once)
RoundScrollsOneBottom == IncrementalSteps + 1

\* the scroll calls of one round: the two inner loops run to their ends
RoundScrolls == IncrementalSteps + BottomScrolls

\* the numbers of '(YC S25)' markers a text of the page can hold
MarkerCounts == {0, ExpectedMinimum - 1, ExpectedMinimum}

\* (a test that needs more markers than the minimum)
ConvergesAbove(count) == count > ExpectedMinimum

\* if current_count >= 10: break
Converges(count) == count >= ExpectedMinimum

\* if scroll_round > 5 and current_count == initial_count, on the loop
\* variable, which counts from 0
NoProgress(round, count, initial) == round > StallRound /\ count = initial

\* (a loop that is one round short)
LastRoundShort(round) == round = MaxRounds - 2

\* range(20) has given its last value
LastRound(round) == round = MaxRounds - 1

SearchInit ==
    /\ gpc = "start"
    /\ browser = "none"
    /\ page_num = 0
    /\ gate = "none"
    /\ initial_count = 0
    /\ current_count = 0
    /\ scroll_round = 0
    /\ round_scrolls = 0
    /\ engine = "Loading"
    /\ refreshes = 0
    /\ reloaded = FALSE
    /\ unchanged = 0
    /\ changed = FALSE
    /\ final_yc_count = 0
    /\ returned = "none"

\* search_all_pages: if not self.setup_driver(): return [].  The except
\* branch of this setup_driver returns False and leaves self.driver as it is.
SearchSetup(o) ==
    /\ gpc = "start"
    /\ CASE o = "no_browser" -> gpc' = "done" /\ UNCHANGED browser
         [] o = "config_failed" -> gpc' = "done" /\ browser' = "open"
         [] o = "ok" -> gpc' = "login" /\ browser' = "open"
    /\ UNCHANGED <<page_num, gate, initial_count, current_count, scroll_round,
                   round_scrolls, engine,
                   refreshes, reloaded, unchanged, changed, final_yc_count, returned>>
    /\ UNCHANGED <<mvars, svars, xvars, lvars, cvars>>

SearchSetupStep == \E o \in SetupOutcomes : SearchSetup(o)

\* self.login_to_linkedin(); an exception goes to the except branch of
\* search_all_pages and through its finally block
Login(raises) ==
    /\ gpc = "login"
    /\ IF raises
       THEN gpc' = "done" /\ browser' = "closed"
       ELSE gpc' = "pages" /\ UNCHANGED browser
    /\ UNCHANGED <<page_num, gate, initial_count, current_count, scroll_round,
                   round_scrolls, engine,
                   refreshes, reloaded, unchanged, changed, final_yc_count, returned>>
    /\ UNCHANGED <<mvars, svars, xvars, lvars, cvars>>

LoginStep == \E raises \in BOOLEAN : Login(raises)

\* search_page up to the scroll loop: driver.get, the wait for content, whose
\* timeout is only printed, and the first count of markers
LoadPage(raises, g, count) ==
    /\ gpc = "pages"
    /\ page_num < NumPages
    /\ page_num' = page_num + 1
    /\ scroll_round' = 0
    /\ round_scrolls' = 0
    /\ refreshes' = 0
    /\ reloaded' = FALSE
    /\ unchanged' = 0
    /\ changed' = FALSE
    /\ final_yc_count' = 0
    /\ IF raises
       THEN \* except Exception: return []
            /\ gate' = "none"
            /\ initial_count' = 0
            /\ current_count' = 0
            /\ engine' = "Error"
            /\ returned' = "empty"
            /\ gpc' = "pages"
       ELSE /\ gate' = g
            /\ initial_count' = count
            /\ current_count' = count
            /\ engine' = "Scrolling"
            /\ returned' = "none"
            /\ gpc' = "scrolling"
    /\ UNCHANGED browser
    /\ UNCHANGED <<mvars, svars, xvars, lvars, cvars>>

LoadPageStep ==
    \E raises \in BOOLEAN, g \in {"loaded", "timeout"}, count \in MarkerCounts :
        LoadPage(raises, g, count)

\* one round of the scroll loop: the scrolls, the count, the break and the
\* refresh
ScrollRound(raises, count) ==
    /\ gpc = "scrolling"
    /\ scroll_round' = scroll_round + 1
    /\ IF raises
       THEN \* except Exception: return []
            /\ engine' = "Error"
            /\ returned' = "empty"
            /\ gpc' = "pages"
            /\ UNCHANGED <<current_count, round_scrolls, refreshes, reloaded, unchanged,
                           changed>>
       ELSE /\ round_scrolls' = RoundScrolls
            /\ current_count' = count
            /\ unchanged' = IF count = current_count THEN unchanged + 1 ELSE 0
            /\ changed' = (changed \/ count # initial_count)
            /\ UNCHANGED returned
            /\ IF Converges(count)
               THEN /\ engine' = "Converged"
                    /\ gpc' = "final"
                    /\ reloaded' = FALSE
                    /\ UNCHANGED refreshes
               ELSE /\ reloaded' = NoProgress(scroll_round, count, initial_count)
                    /\ refreshes' = IF NoProgress(scroll_round, count, initial_count)
                                    THEN refreshes + 1 ELSE refreshes
                    /\ IF LastRound(scroll_round)
                       THEN engine' = "Exhausted" /\ gpc' = "final"
                       ELSE engine' = "Scrolling" /\ gpc' = "scrolling"
    /\ UNCHANGED <<browser, page_num, gate, initial_count, final_yc_count>>
    /\ UNCHANGED <<mvars, svars, xvars, lvars, cvars>>

ScrollRoundStep ==
    \E raises \in BOOLEAN, count \in MarkerCounts : ScrollRound(raises, count)

\* search_page after the loop: the last scrolls, the text read again, the
\* companies extracted from it
FinishPage(raises, count) ==
    /\ gpc = "final"
    /\ IF raises
       THEN engine' = "Error" /\ returned' = "empty" /\ UNCHANGED final_yc_count
       ELSE final_yc_count' = count /\ returned' = "text" /\ UNCHANGED engine
    /\ gpc' = "pages"
    /\ UNCHANGED <<browser, page_num, gate, initial_count, current_count, scroll_round,
                   round_scrolls, refreshes, reloaded, unchanged, changed>>
    /\ UNCHANGED <<mvars, svars, xvars, lvars, cvars>>

FinishPageStep ==
    \E raises \in BOOLEAN, count \in MarkerCounts : FinishPage(raises, count)

\* search_all_pages after its loop: the return through the finally block
FinishSearch ==
    /\ gpc = "pages"
    /\ page_num = NumPages
    /\ gpc' = "done"
    /\ browser' = "closed"
    /\ UNCHANGED <<page_num, gate, initial_count, current_count, scroll_round,
                   round_scrolls, engine,
                   refreshes, reloaded, unchanged, changed, final_yc_count, returned>>
    /\ UNCHANGED <<mvars, svars, xvars, lvars, cvars>>

----------------------------------------------------------------------------
(* save_to_csv of the YC scraper *)

\* longest list of records given to save_to_csv
MaxScraped == 3

\* the records scrape_batch builds: a Title (a text, empty for a URL that
\* ends in '/companies/') and the other columns, here the description
YcTitles == {<<"A">>, <<"a">>, <<"B">>, <<>>}

YcRecords == [Title : YcTitles, Desc : {<<"d">>, <<>>}]

ScrapedLists(n) == UNION {[1..k -> YcRecords] : k \in 0..n}

\* (keep='last': the row has no later row of its Title)
keep_last(df, i) == \A j \in (i + 1)..Len(df) : df[j].Title # df[i].Title

\* keep='first': the row has no earlier row of its Title
keep_first(df, i) == \A j \in 1..(i - 1) : df[j].Title # df[i].Title

RECURSIVE KeptUpTo(_, _)

\* the rows kept among the first n, in their order
KeptUpTo(df, n) ==
    IF n = 0 THEN <<>>
    ELSE IF keep_first(df, n) THEN Append(KeptUpTo(df, n - 1), df[n])
         ELSE KeptUpTo(df, n - 1)

\* df.drop_duplicates(subset=['Title'], keep='first')
drop_duplicates(df) == KeptUpTo(df, Len(df))

\* df.to_csv(filename, index=False)
yc_to_csv(df) ==
    [i \in 1..Len(df) |-> [Title |-> FormatCell(df[i].Title), Desc |-> FormatCell(df[i].Desc)]]

SaveInit ==
    /\ scraped \in ScrapedLists(MaxScraped)
    /\ yc_csv = [called |-> FALSE, exists |-> FALSE, rows |-> <<>>]

\* save_to_csv(companies): nothing is written for an empty list
save_to_csv ==
    /\ ~yc_csv.called
    /\ yc_csv' = IF scraped = <<>>
                 THEN [yc_csv EXCEPT !.called = TRUE]
                 ELSE [called |-> TRUE, exists |-> TRUE,
                       rows |-> yc_to_csv(drop_duplicates(scraped))]
    /\ UNCHANGED scraped
    /\ UNCHANGED <<mvars, svars, pvars, xvars, lvars>>

----------------------------------------------------------------------------
(* The text extractors *)
(*                                                                         *)
(* The text given to extract_followers_count is a sequence of tokens: a    *)
(* digit, a dot, a blank, a magnitude letter, or a whole follower label.   *)

\* longest text handed to extract_followers_count, in tokens
MaxTextLen == 6

\* "abonnes" stands for the French label of the page
FollowerTokens == {"1", ".", " ", "K", "followers", "abonnes"}

\* [\d\s,.]
QuantityClass == {"1", ".", " ", ","}

\* [KMB], and the factor of each letter
Magnitudes == {"K", "M", "B"}

Factor(c) ==
    CASE c = "K" -> 1000
      [] c = "M" -> 1000000
      [] c = "B" -> 1000000000

\* the pattern table: the quantity before the label ("prefix") or after it
\* ("suffix"), and the labels of FollowerTokens that the pattern's label
\* matches with re.IGNORECASE
patterns ==
    << [form |-> "prefix", labels |-> {"followers"}],
       [form |-> "suffix", labels |-> {"followers"}],
       [form |-> "prefix", labels |-> {}],
       [form |-> "prefix", labels |-> {}],
       [form |-> "suffix", labels |-> {}],
       [form |-> "prefix", labels |-> {"followers"}],
       [form |-> "suffix", labels |-> {}],
       [form |-> "prefix", labels |-> {"abonnes"}],
       [form |-> "suffix", labels |-> {"abonnes"}],
       [form |-> "prefix", labels |-> {}],
       [form |-> "suffix", labels |-> {}],
       [form |-> "prefix", labels |-> {}],
       [form |-> "prefix", labels |-> {"followers"}],
       [form |-> "prefix", labels |-> {}],
       [form |-> "suffix", labels |-> {}],
       [form |-> "prefix", labels |-> {"followers", "abonnes"}] >>

Least(S) == CHOOSE n \in S : \A m \in S : n <= m

Greatest(S) == CHOOSE n \in S : \A m \in S : m <= n

\* t[i..j] is in [\d\s,.]*
IsRun(t, i, j) == \A n \in i..j : t[n] \in QuantityClass

\* t[i..j] is in [\d\s,.]+(?:\.\d+)?[KMB]?
IsGroup(t, i, j) ==
    /\ i <= j
    /\ \/ IsRun(t, i, j)
       \/ i < j /\ IsRun(t, i, j - 1) /\ t[j] \in Magnitudes

\* the positions of the labels in t
Labelled(t, labels) == {l \in 1..Len(t) : t[l] \in labels}

\* the ends j of a group t[i..j] that \s+ and a label follow
PrefixEnds(t, labels, i) ==
    {j \in i..Len(t) :
        \E l \in Labelled(t, labels) :
            /\ l > j + 1
            /\ \A n \in (j + 1)..(l - 1) : t[n] = " "
            /\ IsGroup(t, i, j)}

\* the positions a prefix pattern matches from
PrefixStarts(t, labels) ==
    IF Labelled(t, labels) = {} THEN {}
    ELSE {i \in 1..Len(t) : PrefixEnds(t, labels, i) # {}}

\* the end of the longest run of [\d\s,.] from position i (i - 1 if none)
RunEnd(t, i) == Greatest({j \in (i - 1)..Len(t) : IsRun(t, i, j)})

\* the positions of a label that a quantity follows: \s*:?\s* and the group
SuffixStarts(t, labels) ==
    {p \in 1..(Len(t) - 1) : t[p] \in labels /\ t[p + 1] \in QuantityClass}

\* the group of the suffix pattern at label p: the blanks go to \s* as long
\* as one character is left for the group, the group is as long as it can be
SuffixGroup(t, p) ==
    LET e == RunEnd(t, p + 1)
        blanks == Greatest({n \in 0..(e - p) : \A m \in (p + 1)..(p + n) : t[m] = " "})
        g == IF p + blanks = e THEN e ELSE p + blanks + 1
        m == IF e < Len(t) /\ t[e + 1] \in Magnitudes THEN e + 1 ELSE e
    IN SubSeq(t, g, m)

NoMatch == [matched |-> FALSE, group |-> <<>>]

\* re.search(pattern, text, re.IGNORECASE) and match.group(1): the leftmost
\* match, its group the longest
search(pattern, t) ==
    IF pattern.form = "prefix"
    THEN LET where == PrefixStarts(t, pattern.labels)
             i == Least(where)
         IN IF where = {} THEN NoMatch
            ELSE [matched |-> TRUE,
                  group |-> SubSeq(t, i, Greatest(PrefixEnds(t, pattern.labels, i)))]
    ELSE LET where == SuffixStarts(t, pattern.labels)
         IN IF where = {} THEN NoMatch
            ELSE [matched |-> TRUE, group |-> SuffixGroup(t, Least(where))]

\* match.group(1).replace(' ', '').replace(',', '').replace('.', '')
count_str(group) == SelectSeq(group, LAMBDA c : c \notin {" ", ",", "."})

\* count_str.endswith('K'), and the same of 'M' and 'B'
endswith(cs) == cs # <<>> /\ cs[Len(cs)] \in Magnitudes

\* count_str.isdigit(); float(s) of such a text does not raise
isdigit(cs) == cs # <<>> /\ \A n \in 1..Len(cs) : cs[n] = "1"

\* int(s) of a text of digits
RECURSIVE int(_)
int(cs) == IF cs = <<>> THEN 0 ELSE 10 * int(SubSeq(cs, 1, Len(cs) - 1)) + 1

\* the return values of extract_followers_count: None, or str(n)
NoCount == [found |-> FALSE, value |-> 0]

Count(n) == [found |-> TRUE, value |-> n]

RECURSIVE TryPatterns(_, _)

\* (a loop that gives up at the first quantity it cannot convert)
AfterFailedParseReturns(text, n) == NoCount

\* except: continue
AfterFailedParse(text, n) == TryPatterns(text, n + 1)

\* for pattern in patterns: ... ; return None
TryPatterns(text, n) ==
    IF n > Len(patterns) THEN NoCount
    ELSE LET match == search(patterns[n], text)
             cs == count_str(match.group)
         IN IF ~match.matched THEN TryPatterns(text, n + 1)
            ELSE IF endswith(cs)
                 THEN IF isdigit(SubSeq(cs, 1, Len(cs) - 1))
                      THEN Count(int(SubSeq(cs, 1, Len(cs) - 1)) * Factor(cs[Len(cs)]))
                      ELSE AfterFailedParse(text, n)
                 ELSE IF isdigit(cs) THEN Count(int(cs))
                      ELSE TryPatterns(text, n + 1)

extract_followers_count(text) == TryPatterns(text, 1)

\* the texts of at most n tokens
RECURSIVE TextsUpTo(_)
TextsUpTo(n) ==
    IF n = 0 THEN {<<>>}
    ELSE LET shorter == TextsUpTo(n - 1)
         IN shorter \cup {Append(t, c) : t \in {u \in shorter : Len(u) = n - 1},
                                          c \in FollowerTokens}

NotCalled ==
    [done |-> FALSE, raised |-> FALSE, found |-> FALSE, value |-> 0, tags |-> <<>>,
     joined |-> <<>>]

Gave(r) ==
    [done |-> TRUE, raised |-> FALSE, found |-> r.found, value |-> r.value, tags |-> <<>>,
     joined |-> <<>>]

\* the calls on a text of at most n tokens
FollowerCalls(n) == {[fn |-> "followers", text |-> t, label |-> <<>>] : t \in TextsUpTo(n)}

\* no extractor is called, for the runs of the other programs
ExtractIdle ==
    /\ call = [fn |-> "none", text |-> <<>>, label |-> <<>>]
    /\ answer = NotCalled

FollowersInit ==
    /\ call \in FollowerCalls(MaxTextLen)
    /\ answer = NotCalled

\* followers_count = self.extract_followers_count(page_text)
ExtractFollowersCount ==
    /\ call.fn = "followers"
    /\ ~answer.done
    /\ answer' = Gave(extract_followers_count(call.text))
    /\ UNCHANGED call
    /\ UNCHANGED <<mvars, svars, pvars, lvars, cvars>>

----------------------------------------------------------------------------
(* check_yc_batch_indicator and the tags of a detail page: the texts are   *)
(* sequences of characters                                                 *)

\* most words of a page text handed to check_yc_batch_indicator
MaxWords == 3

\* most lines of the container text of a detail page
MaxLines == 3

UpperCase == <<"A", "B", "C", "D", "E", "F", "G", "H", "I", "J", "K", "L", "M",
               "N", "O", "P", "Q", "R", "S", "T", "U", "V", "W", "X", "Y", "Z">>

LowerCase == <<"a", "b", "c", "d", "e", "f", "g", "h", "i", "j", "k", "l", "m",
               "n", "o", "p", "q", "r", "s", "t", "u", "v", "w", "x", "y", "z">>

IsUpperChar(c) == \E n \in 1..Len(UpperCase) : UpperCase[n] = c

IsLowerChar(c) == \E n \in 1..Len(LowerCase) : LowerCase[n] = c

\* (a lower() that leaves the text as it is)
str_asis(x) == x

\* str.lower()
str_lower(x) ==
    [n \in 1..Len(x) |->
        IF IsUpperChar(x[n])
        THEN LowerCase[CHOOSE m \in 1..Len(UpperCase) : UpperCase[m] = x[n]]
        ELSE x[n]]

\* needle in hay
Contains(needle, hay) ==
    \E n \in 0..(Len(hay) - Len(needle)) : SubSeq(hay, n + 1, n + Len(needle)) = needle

RECURSIVE Concat(_)
Concat(ws) == IF ws = <<>> THEN <<>> ELSE Head(ws) \o Concat(Tail(ws))

Spring2025 == <<"S", "p", "r", "i", "n", "g", " ", "2", "0", "2", "5">>
Summer2025 == <<"S", "u", "m", "m", "e", "r", " ", "2", "0", "2", "5">>
Winter2025 == <<"W", "i", "n", "t", "e", "r", " ", "2", "0", "2", "5">>

SpringIndicators ==
    <<<<"X", "2", "5">>,
     <<"S", "p", "r", "i", "n", "g", " ", "2", "0", "2", "5">>,
     <<"Y", "C", " ", "X", "2", "5">>,
     <<"Y", "C", " ", "S", "p", "r", "i", "n", "g", " ", "2", "0", "2", "5">>,
     <<"S", "p", "r", "i", "n", "g", " ", "'", "2", "5">>>>

SummerIndicators ==
    <<<<"S", "2", "5">>,
     <<"S", "u", "m", "m", "e", "r", " ", "2", "0", "2", "5">>,
     <<"Y", "C", " ", "S", "2", "5">>,
     <<"Y", "C", " ", "S", "u", "m", "m", "e", "r", " ", "2", "0", "2", "5">>,
     <<"S", "u", "m", "m", "e", "r", " ", "'", "2", "5">>>>

WinterIndicators ==
    <<<<"W", "2", "5">>,
     <<"W", "i", "n", "t", "e", "r", " ", "2", "0", "2", "5">>,
     <<"Y", "C", " ", "W", "2", "5">>,
     <<"Y", "C", " ", "W", "i", "n", "t", "e", "r", " ", "2", "0", "2", "5">>,
     <<"W", "i", "n", "t", "e", "r", " ", "'", "2", "5">>>>

\* the if / elif chain that picks batch_indicators
\* (a table that takes an unknown label as its own indicator)
batch_indicatorsOrLabel(batch_name) ==
    IF Contains(Spring2025, batch_name) THEN SpringIndicators
    ELSE IF Contains(Summer2025, batch_name) THEN SummerIndicators
    ELSE IF Contains(Winter2025, batch_name) THEN WinterIndicators
    ELSE <<batch_name>>

batch_indicators(batch_name) ==
    IF Contains(Spring2025, batch_name) THEN SpringIndicators
    ELSE IF Contains(Summer2025, batch_name) THEN SummerIndicators
    ELSE IF Contains(Winter2025, batch_name) THEN WinterIndicators
    ELSE <<>>

Raised ==
    [done |-> TRUE, raised |-> TRUE, found |-> FALSE, value |-> 0, tags |-> <<>>,
     joined |-> <<>>]

\* "Spring 2025" in batch_name raises TypeError when batch_name is the
\* missing value of the table, a float; else any(indicator.lower() in text.lower())
check_yc_batch_indicator(text, batch_name) ==
    IF ~notna(batch_name) THEN Raised
    ELSE Gave([found |-> \E n \in 1..Len(batch_indicators(batch_name)) :
                            Contains(str_lower(batch_indicators(batch_name)[n]),
                                     str_lower(text)),
               value |-> 0])

\* the words the page texts of the model are made of
IndicatorWords ==
    {<<"S", "2", "5">>,
     <<"s">>,
     <<"2", "5">>,
     <<" ">>,
     <<"S", "U", "M", "M", "E", "R">>,
     <<"2", "0", "2", "5">>,
     <<"'", "2", "5">>,
     <<"X", "2", "5">>,
     <<"S", "p", "r", "i", "n", "g", " ", "2", "0", "2", "5">>,
     <<"W", "i", "n", "t", "e", "r", " ", "'", "2", "5">>,
     <<"F", "a", "l", "l", " ", "2", "0", "2", "4">>}

RECURSIVE WordsUpTo(_, _)
WordsUpTo(words, n) ==
    IF n = 0 THEN {<<>>}
    ELSE LET shorter == WordsUpTo(words, n - 1)
         IN shorter \cup {Append(t, w) : t \in {u \in shorter : Len(u) = n - 1}, w \in words}

\* the Batch cells of the input table as written in the file: an empty cell
\* is read as the missing value
BatchCells ==
    {<<"S", "u", "m", "m", "e", "r", " ", "2", "0", "2", "5">>,
     <<"S", "p", "r", "i", "n", "g", " ", "2", "0", "2", "5">>,
     <<"W", "i", "n", "t", "e", "r", " ", "2", "0", "2", "5">>,
     <<"F", "a", "l", "l", " ", "2", "0", "2", "4">>,
     <<"s", "u", "m", "m", "e", "r", " ", "2", "0", "2", "5">>,
     <<>>}

\* the calls on a text of at most n words
IndicatorCalls(n) ==
    {[fn |-> "indicator", text |-> Concat(ws), label |-> ParseCell(c)] :
        ws \in WordsUpTo(IndicatorWords, n), c \in BatchCells}

IndicatorInit ==
    /\ call \in IndicatorCalls(MaxWords)
    /\ answer = NotCalled

\* has_indicator = self.check_yc_batch_indicator(page_text, batch_name)
CheckYcBatchIndicator ==
    /\ call.fn = "indicator"
    /\ ~answer.done
    /\ answer' = check_yc_batch_indicator(call.text, call.label)
    /\ UNCHANGED call
    /\ UNCHANGED <<mvars, svars, pvars, lvars, cvars>>

\* line.isupper(): a cased character, and none in lower case
isupper(line) ==
    /\ \E n \in 1..Len(line) : IsUpperChar(line[n])
    /\ \A n \in 1..Len(line) : ~IsLowerChar(line[n])

MinTagLen == 1

MaxTagLen == 30

Excluded ==
    {<<"S", "P", "R", "I", "N", "G", " ", "2", "0", "2", "5">>,
     <<"W", "I", "N", "T", "E", "R", " ", "2", "0", "2", "5">>,
     <<"S", "U", "M", "M", "E", "R", " ", "2", "0", "2", "5">>,
     <<"A", "C", "T", "I", "V", "E">>,
     <<"I", "N", "A", "C", "T", "I", "V", "E">>}

Cities ==
    {<<"N", "E", "W", " ", "Y", "O", "R", "K">>,
     <<"S", "A", "N", " ", "F", "R", "A", "N", "C", "I", "S", "C", "O">>,
     <<"L", "O", "S", " ", "A", "N", "G", "E", "L", "E", "S">>,
     <<"C", "H", "I", "C", "A", "G", "O">>,
     <<"B", "O", "S", "T", "O", "N">>,
     <<"S", "E", "A", "T", "T", "L", "E">>}

\* the three nested ifs on a stripped line
IsTag(line) ==
    /\ isupper(line) /\ Len(line) > MinTagLen /\ Len(line) < MaxTagLen
    /\ line \notin Excluded
    /\ ~\E city \in Cities : Contains(city, line)

\* (a loop that appends a line only if it is not in tags yet)
AppendTagOnce(tags, line) ==
    IF \E n \in 1..Len(tags) : tags[n] = line THEN tags ELSE Append(tags, line)

\* tags.append(line)
AppendTag(tags, line) == Append(tags, line)

\* for line in lines: line = line.strip(); ... tags.append(line)
RECURSIVE CollectTags(_, _)
CollectTags(lines, tags) ==
    IF lines = <<>> THEN tags
    ELSE CollectTags(Tail(lines),
                     IF IsTag(Strip(Head(lines))) THEN AppendTag(tags, Strip(Head(lines)))
                     ELSE tags)

\* ', '.join(tags)
RECURSIVE join(_)
join(tags) ==
    IF tags = <<>> THEN <<>>
    ELSE IF Len(tags) = 1 THEN tags[1]
    ELSE tags[1] \o <<",", " ">> \o join(Tail(tags))

\* the lines of container_text.split('\n') the model draws from
TagLines ==
    {<<"A", "I">>,
     <<" ", "A", "I", " ">>,
     <<"A", "i">>,
     <<"A">>,
     <<"A", "C", "T", "I", "V", "E">>,
     <<"B", "O", "S", "T", "O", "N">>,
     <<"B", "O", "S", "T", "O", "N", " ", "A", "I">>,
     <<"B", "2", "B">>,
     <<"2", "0", "2", "5">>, <<>>, [n \in 1..(MaxTagLen - 1) |-> "A"], [n \in 1..MaxTagLen |-> "A"]}

\* the runs on a container text of at most n lines
TagCalls(n) ==
    {[fn |-> "tags", text |-> ls, label |-> <<>>] : ls \in WordsUpTo(TagLines, n)}

TagsInit ==
    /\ call \in TagCalls(MaxLines)
    /\ answer = NotCalled

\* lines = container_text.split('\n') ... data['tags'] = ', '.join(tags)
ExtractTags ==
    /\ call.fn = "tags"
    /\ ~answer.done
    /\ answer' = [done |-> TRUE, raised |-> FALSE, found |-> FALSE, value |-> 0,
                  tags |-> CollectTags(call.text, <<>>),
                  joined |-> join(CollectTags(call.text, <<>>))]
    /\ UNCHANGED call
    /\ UNCHANGED <<mvars, svars, pvars, lvars, cvars>>

----------------------------------------------------------------------------
(* Specifications *)

\* the merge at rest, for the runs of the scrapers
MergeIdle ==
    /\ data_csv = [exists |-> FALSE, rows |-> <<>>]
    /\ mpc = "idle"
    /\ companies = <<>>
    /\ new_companies = <<>>
    /\ prev_csv = data_csv
    /\ pending = <<>>
    /\ completed = FALSE
    /\ repeat = FALSE

\* the scrapers at rest, for the runs of the merge
SessionIdle ==
    /\ SessionInit
    /\ scraper = "yc"

\* the search at rest, for the runs of the merge and of the scrapers
SearchIdle == SearchInit

\* the listing loop before its first scroll
ListingIdle ==
    /\ last_count = 0
    /\ scroll_attempts = 0
    /\ link_count = 0
    /\ rose = TRUE

\* save_to_csv not called
SaveIdle ==
    /\ scraped = <<>>
    /\ yc_csv = [called |-> FALSE, exists |-> FALSE, rows |-> <<>>]

Init == MergeInit /\ ListingIdle /\ SaveIdle /\ SessionIdle /\ SearchIdle /\ ExtractIdle

Next == SaveResults \/ WriteRow \/ WriteDone \/ Crash \/ Rerun

\* the merge: save_results called any number of times
Spec == Init /\ [][Next]_vars

InitSession == MergeIdle /\ ListingIdle /\ SaveIdle /\ SessionInit /\ SearchIdle /\ ExtractIdle

NextSession ==
    ListingStep \/ ReadInputStep \/ BeginRecord \/ SetupDriverStep \/ TryBodyStep
        \/ FinallyStep \/ FinishBatch

\* a scraping run: the batch loop and the retry loop of each record
SpecSession == InitSession /\ [][NextSession]_vars

InitSearch == MergeIdle /\ ListingIdle /\ SaveIdle /\ SessionIdle /\ SearchInit /\ ExtractIdle

NextSearch ==
    SearchSetupStep \/ LoginStep \/ LoadPageStep \/ ScrollRoundStep \/ FinishPageStep
        \/ FinishSearch

\* a run of search_all_pages: the pages and the scroll loop of each
SpecSearch == InitSearch /\ [][NextSearch]_vars

InitListing ==
    MergeIdle /\ ListingIdle /\ SaveIdle /\ SessionIdle /\ SearchIdle /\ ExtractIdle

NextListing == OpenListingStep \/ ListingScrollStep \/ CollectUrlsStep

\* one call of get_all_company_urls, scroll by scroll; each scroll and
\* each wait of the loop ends, so the call goes on until it returns
SpecListing == InitListing /\ [][NextListing]_vars /\ WF_vars(NextListing)

InitSave ==
    MergeIdle /\ ListingIdle /\ SaveInit /\ SessionIdle /\ SearchIdle /\ ExtractIdle

NextSave == save_to_csv

\* save_to_csv on every list of records
SpecSave == InitSave /\ [][NextSave]_vars

InitCompany == MergeIdle /\ ListingIdle /\ SaveIdle /\ CompanyInit /\ SearchIdle

NextCompany == ScrapeLinkedinCompany \/ SetupDriverStep \/ TryBodyStep \/ FinallyStep

\* one call of scrape_linkedin_company, to its return
SpecCompany == InitCompany /\ [][NextCompany]_vars

InitBatch == MergeIdle /\ ListingIdle /\ SaveIdle /\ BatchInit /\ SearchIdle /\ ExtractIdle

NextBatch == ScrapeRecordStep \/ FinishBatch

\* the loop of a long batch, record by record
SpecBatch == InitBatch /\ [][NextBatch]_vars

\* the process runs one program: the position of the other is past its end
NoScraper ==
    /\ scraper = "li"
    /\ urls = 0
    /\ spc = "done"
    /\ rec = 0
    /\ attempt = 0
    /\ driver = 0
    /\ born = [rec |-> 0, attempt |-> 0]
    /\ nsessions = 0
    /\ live = {}
    /\ outcome = NoOutcome
    /\ slept = FALSE
    /\ starts = {}
    /\ navs = {}
    /\ results = <<>>
    /\ files = {}

NoSearch ==
    /\ gpc = "done"
    /\ browser = "none"
    /\ page_num = 0
    /\ gate = "none"
    /\ initial_count = 0
    /\ current_count = 0
    /\ scroll_round = 0
    /\ round_scrolls = 0
    /\ engine = "Loading"
    /\ refreshes = 0
    /\ reloaded = FALSE
    /\ unchanged = 0
    /\ changed = FALSE
    /\ final_yc_count = 0
    /\ returned = "none"

InitRuns ==
    MergeIdle /\ ListingIdle /\ SaveIdle /\ ((SessionInit /\ NoSearch) \/ (NoScraper /\ SearchInit)) /\ ExtractIdle

NextRuns ==
    ListingStep \/ ReadInputStep \/ BeginRecord \/ SetupDriverStep \/ TryBodyStep \/ FinallyStep
        \/ FinishBatch \/ SearchSetupStep \/ LoginStep \/ LoadPageStep \/ ScrollRoundStep
        \/ FinishPageStep \/ FinishSearch

\* a run of one of the three programs to its end.  The program is one
\* sequential process: whenever it has a next step it takes it, every
\* browser call and sleep returning in finite time (page-load timeout,
\* implicit wait, WebDriverWait) and the operator answering each input().
SpecRuns == InitRuns /\ [][NextRuns]_vars /\ WF_vars(NextRuns)

InitFollowers == MergeIdle /\ ListingIdle /\ SaveIdle /\ SessionIdle /\ SearchIdle /\ FollowersInit

NextFollowers == ExtractFollowersCount

\* one call of extract_followers_count on one text
SpecFollowers == InitFollowers /\ [][NextFollowers]_vars

InitIndicator == MergeIdle /\ ListingIdle /\ SaveIdle /\ SessionIdle /\ SearchIdle /\ IndicatorInit

NextIndicator == CheckYcBatchIndicator

\* one call of check_yc_batch_indicator on one text and one batch label
SpecIndicator == InitIndicator /\ [][NextIndicator]_vars

InitTags == MergeIdle /\ ListingIdle /\ SaveIdle /\ SessionIdle /\ SearchIdle /\ TagsInit

NextTags == ExtractTags

\* one run of the tag extraction on one container text
SpecTags == InitTags /\ [][NextTags]_vars

----------------------------------------------------------------------------
(* Properties of the merge.                                                *)
(*                                                                         *)
(* A row of data.csv has a title when its Title cell is not empty, and a   *)
(* link when its Link cell is not blank; the identity keys of a row are    *)
(* the normalized forms of those.                                          *)

RowTitles(rows) ==
    {Normalize(rows[i].Title) : i \in {j \in 1..Len(rows) : rows[j].Title # <<>>}}

RowLinks(rows) ==
    {Normalize(rows[i].Link) : i \in {j \in 1..Len(rows) : Normalize(rows[j].Link) # <<>>}}

\* the duplicate rule of the specification, on the rows of the file
RuleRejects(c, rows) ==
    \/ Normalize(c.title) \in RowTitles(rows)
    \/ c.linkedin_url # <<>> /\ Normalize(c.linkedin_url) \in RowLinks(rows)

Range(s) == {s[i] : i \in DOMAIN s}

\* the row of the file an accepted candidate becomes
FileRow(c) == [Title |-> c.title, Link |-> c.linkedin_url, Desc |-> <<>>]

\* the last call of save_results has returned
Returned == mpc = "idle" /\ completed

\* C1: no two rows of the persisted store share a normalized title or a
\* normalized non-empty link, after any sequence of merges from a store that
\* was so.
StoreUnique ==
    \A i, j \in 1..Len(data_csv.rows) :
        i < j =>
            LET a == data_csv.rows[i]
                b == data_csv.rows[j]
            IN /\ ~(a.Title # <<>> /\ b.Title # <<>>
                       /\ Normalize(a.Title) = Normalize(b.Title))
               /\ ~(Normalize(a.Link) # <<>> /\ Normalize(a.Link) = Normalize(b.Link))

\* C2: of two identical candidates of one call that are not in the store,
\* exactly one is accepted.
IdenticalPairAcceptedOnce ==
    \A i, j \in 1..Len(companies) :
        (i < j /\ companies[i] = companies[j]
               /\ ~RuleRejects(companies[i], prev_csv.rows))
            => Cardinality({k \in 1..Len(new_companies) :
                                new_companies[k] = companies[i]}) = 1

\* C3: a call that repeats the call before it, on the store that call left,
\* accepts nothing and leaves the store as it is.
MergeIdempotent ==
    repeat => (new_companies = <<>> /\ data_csv = prev_csv)

AtomicWrite ==
    \/ data_csv.rows = prev_csv.rows
    \/ data_csv.rows = prev_csv.rows \o [i \in 1..Len(new_companies) |->
                                             FileRow(new_companies[i])]

----------------------------------------------------------------------------
(* Properties of the sessions and of the retry loops *)

\* C7: when the retry operation has given control back to its caller, every
\* session it started has been quit.
SessionsReleased ==
    spc \in {"loop", "done", "raised"} => live = {}

AtMostOneLive == Cardinality(live) <= 1

\* C10: every attempt after the first on a record began after the backoff
\* sleep that follows the attempt before it.
BackoffBetweenAttempts ==
    \A s \in starts : s.attempt > 0 => s.backoff

\* the setup_driver calls the current operation has made
SetupCalls == Cardinality(starts)

\* C11: an operation that acquires a session gives up on a failed
\* setup_driver only when it has tried again with a new session until its
\* attempts were used up: the listing made more than one setup_driver call,
\* the retry operation of a record made max_retries of them.
RetryAfterSetupFailure ==
    (spc \in {"loop", "done"} /\ outcome = SetupFailed) =>
        IF rec = 0 THEN SetupCalls > 1 ELSE SetupCalls = max_retries

\* C12: no attempt on a record begins after an attempt on it found the page
\* unavailable.
UnavailableIsTerminal ==
    \A n \in navs :
        n.end \in {"not_found", "page_404"} =>
            \A s \in starts : s.attempt <= n.attempt

\* C13: no failure on a record ends the batch: the loop is never left by an
\* exception, and when it has ended it has emitted one record for every
\* input, in input order.
BatchNeverAborts ==
    /\ rec > 0 => spc # "raised"
    /\ spc = "done" =>
          /\ Len(results) = urls
          /\ \A i \in 1..Len(results) : results[i].rec = i

\* the fields the attempts on the current record extracted
ExtractedSoFar == UNION {n.fields : n \in navs}

\* C14: the record emitted for an input whose attempts all failed holds the
\* fields the attempts extracted and a non-empty error.
PartialDataKept ==
    (spc = "loop" /\ rec > 0 /\ ~results[rec].success) =>
        /\ ExtractedSoFar \subseteq results[rec].fields
        /\ results[rec].error \notin {"absent", ""}

\* C15: every emitted record has an error field, which is empty exactly when
\* the record is a full success.
ErrorFieldExplicit ==
    \A i \in 1..Len(results) :
        /\ results[i].error # "absent"
        /\ results[i].error = "" <=> results[i].success

----------------------------------------------------------------------------
(* Properties of the scroll loop of search_page *)

\* a round has ended with a count, and no call of the page has raised
RoundMeasured == scroll_round > 0 /\ engine # "Error"

\* C16: when the count at the end of a scroll round is at least
\* ExpectedMinimum the engine is Converged and no further round can start;
\* the engine is Converged only so.
ConvergenceStopsScrolling ==
    /\ (RoundMeasured /\ current_count >= ExpectedMinimum) =>
           (engine = "Converged" /\ gpc # "scrolling")
    /\ engine = "Converged" => (RoundMeasured /\ current_count >= ExpectedMinimum)

\* C16 witness: the loop was left after a round that is neither the first
\* nor the last, with exactly ExpectedMinimum markers.
ConvergenceWitness ==
    /\ engine = "Converged"
    /\ scroll_round > 1
    /\ scroll_round < MaxRounds
    /\ current_count = ExpectedMinimum
    /\ initial_count < ExpectedMinimum

\* C17: when no round of a page counted other than the initial count, which
\* is below ExpectedMinimum, and no call raised, the loop ran MaxRounds rounds,
\* the engine is Exhausted, and search_page returns the companies of the text
\* it read after the loop.
ExhaustionReturns ==
    (gpc \in {"final", "pages"} /\ page_num > 0 /\ engine # "Error"
        /\ ~changed /\ initial_count < ExpectedMinimum) =>
            /\ engine = "Exhausted"
            /\ scroll_round = MaxRounds
            /\ gpc = "pages" => returned = "text"

\* C17 witness: a page whose count never moved has returned its companies.
ExhaustionWitness ==
    /\ gpc = "pages"
    /\ engine = "Exhausted"
    /\ ~changed
    /\ scroll_round = MaxRounds
    /\ returned = "text"

\* the number of rounds the count must stay unchanged for more than: the
\* test `scroll_round > 5` on the loop variable passes from the seventh
\* round on
StallWindow == StallRound + 1

\* C18: a round ends with the reload exactly when the count has been
\* unchanged for more than StallWindow rounds in a row.
StallDetection ==
    (RoundMeasured /\ engine # "Converged") => (reloaded <=> unchanged > StallWindow)

\* C19: the page is reloaded at most once while search_page processes it.
AtMostOneRecovery == refreshes <= 1

\* C20: when the wait for content timed out, the engine is not Scrolling and
\* no scroll round runs before a reload.
LoadingGate ==
    (gate = "timeout" /\ refreshes = 0) => (engine # "Scrolling" /\ scroll_round = 0)

----------------------------------------------------------------------------
(* Termination *)

\* the stale handle of self.driver never names a running session between
\* two records, so renaming the sessions there loses nothing
StaleHandle == spc = "loop" => driver \notin live

\* every loop variable is within its range
LoopsBounded ==
    /\ attempt < max_retries
    /\ rec > 0 => SetupCalls <= max_retries
    /\ scroll_round <= MaxRounds
    /\ RoundMeasured => round_scrolls = IncrementalSteps + BottomScrolls
    /\ rec <= urls
    /\ page_num <= NumPages

\* the program that runs has come to its end
Finished == spc \in {"done", "raised"} /\ gpc = "done"

\* C21: a retry operation makes at most max_retries attempts, search_page
\* runs at most MaxRounds rounds of IncrementalSteps + BottomScrolls scrolls,
\* and every run comes to its end.
LoopsTerminate == []LoopsBounded /\ <>Finished

\* C21 witness: a run ended after a record used up all attempts of its retry
\* operation.
LoopsTerminateWitness ==
    /\ spc = "done"
    /\ rec = MaxRecords
    /\ SetupCalls = max_retries
    /\ scraper = "yc"

----------------------------------------------------------------------------
(* Properties of the extractors *)

FollowerLabels == {"followers", "abonnes"}

HasLabel(t) == \E n \in 1..Len(t) : t[n] \in FollowerLabels

IsDigits(t, i, j) == i <= j /\ \A n \in i..j : t[n] = "1"

RECURSIVE Pow10(_)
Pow10(n) == IF n = 0 THEN 1 ELSE 10 * Pow10(n - 1)

\* t is digits, a magnitude letter, a blank and a label: "3M abonnes"
IntegerShape(t) ==
    /\ Len(t) >= 4
    /\ IsDigits(t, 1, Len(t) - 3)
    /\ t[Len(t) - 2] \in Magnitudes
    /\ t[Len(t) - 1] = " "
    /\ t[Len(t)] \in FollowerLabels

\* t is digits, a dot at d, digits, a magnitude letter, a blank and a label:
\* "1.2K followers"
DecimalShape(t, d) ==
    /\ Len(t) >= 6
    /\ t[d] = "."
    /\ IsDigits(t, 1, d - 1)
    /\ IsDigits(t, d + 1, Len(t) - 3)
    /\ t[Len(t) - 2] \in Magnitudes
    /\ t[Len(t) - 1] = " "
    /\ t[Len(t)] \in FollowerLabels

\* the quantity of a text of DecimalShape, scaled: 1.2K is 1200
DecimalScaled(t, d) ==
    (int(SubSeq(t, 1, d - 1) \o SubSeq(t, d + 1, Len(t) - 3)) * Factor(t[Len(t) - 2]))
        \div Pow10(Len(t) - 3 - d)

\* C22: extract_followers_count gives the quantity next to the label scaled
\* by its magnitude letter, a decimal quantity scaled as a decimal, and none
\* for a text without a follower label
FollowersScaled ==
    call.fn = "followers" /\ answer.done =>
        /\ ~HasLabel(call.text) => ~answer.found
        /\ IntegerShape(call.text) =>
              /\ answer.found
              /\ answer.value = int(SubSeq(call.text, 1, Len(call.text) - 3))
                                    * Factor(call.text[Len(call.text) - 2])
        /\ \A d \in 1..Len(call.text) :
              DecimalShape(call.text, d) =>
                  answer.found /\ answer.value = DecimalScaled(call.text, d)

\* the quantity pattern n captures in the text, and its conversion
Quantity(n, text) == count_str(search(patterns[n], text).group)

Converts(cs) ==
    IF endswith(cs) THEN isdigit(SubSeq(cs, 1, Len(cs) - 1)) ELSE isdigit(cs)

Number(cs) ==
    IF endswith(cs) THEN int(SubSeq(cs, 1, Len(cs) - 1)) * Factor(cs[Len(cs)]) ELSE int(cs)

\* the patterns that match the text and whose quantity converts
Parsing(text) ==
    {n \in 1..Len(patterns) :
        LET match == search(patterns[n], text)
        IN match.matched /\ Converts(count_str(match.group))}

\* C23: the result is the parse of the first pattern of the table that
\* matches and converts, whatever matched and did not convert before it, and
\* it is none iff there is no such pattern
FirstSuccessfulParse ==
    call.fn = "followers" /\ answer.done =>
        LET parsing == Parsing(call.text)
        IN /\ answer.found <=> parsing # {}
           /\ parsing # {} =>
                 answer.value = Number(Quantity(Least(parsing), call.text))

\* a result found by a pattern after one that matched a magnitude letter
\* without a number
FirstSuccessfulParseWitness ==
    /\ call.fn = "followers"
    /\ answer.done
    /\ answer.found
    /\ \E n \in 1..(Least(Parsing(call.text) \cup {Len(patterns)}) - 1) :
          /\ search(patterns[n], call.text).matched
          /\ endswith(Quantity(n, call.text))
          /\ ~Converts(Quantity(n, call.text))

\* C24: a call of an extractor returns a value, whatever the text and the
\* batch label are, and raises no exception
ExtractorsNeverRaise == answer.done => ~answer.raised

\* the same letter, in whichever case
SameLetter(a, b) ==
    \/ a = b
    \/ \E n \in 1..Len(UpperCase) : {a, b} = {UpperCase[n], LowerCase[n]}

ContainsIgnoringCase(form, text) ==
    \E n \in 0..(Len(text) - Len(form)) :
        \A k \in 1..Len(form) : SameLetter(text[n + k], form[k])

\* the canonical forms of Summer 2025, and those of the other two batches
SummerForms ==
    {<<"S", "2", "5">>,
     <<"S", "u", "m", "m", "e", "r", " ", "2", "0", "2", "5">>,
     <<"Y", "C", " ", "S", "2", "5">>,
     <<"Y", "C", " ", "S", "u", "m", "m", "e", "r", " ", "2", "0", "2", "5">>,
     <<"S", "u", "m", "m", "e", "r", " ", "'", "2", "5">>}

OtherForms ==
    {<<"X", "2", "5">>,
     <<"S", "p", "r", "i", "n", "g", " ", "2", "0", "2", "5">>,
     <<"Y", "C", " ", "X", "2", "5">>,
     <<"Y", "C", " ", "S", "p", "r", "i", "n", "g", " ", "2", "0", "2", "5">>,
     <<"S", "p", "r", "i", "n", "g", " ", "'", "2", "5">>,
     <<"W", "2", "5">>,
     <<"W", "i", "n", "t", "e", "r", " ", "2", "0", "2", "5">>,
     <<"Y", "C", " ", "W", "2", "5">>,
     <<"Y", "C", " ", "W", "i", "n", "t", "e", "r", " ", "2", "0", "2", "5">>,
     <<"W", "i", "n", "t", "e", "r", " ", "'", "2", "5">>}

NamesSummer(text) == \E form \in SummerForms : ContainsIgnoringCase(form, text)

\* C25: for the label Summer 2025 the indicator is true iff the text contains
\* one of the five Summer forms in whichever case, so it is false for a text
\* that holds only forms of Spring or Winter
BatchIndicator ==
    call.fn = "indicator" /\ answer.done /\ call.label = <<"S", "u", "m", "m", "e", "r", " ", "2", "0", "2", "5">> =>
        /\ ~answer.raised
        /\ answer.found <=> NamesSummer(call.text)
        /\ (\E form \in OtherForms : ContainsIgnoringCase(form, call.text))
               /\ ~NamesSummer(call.text) => ~answer.found

\* a Summer form found in a text that holds it in another case only, next to
\* a form of Spring
BatchIndicatorWitness ==
    /\ call.fn = "indicator"
    /\ answer.done
    /\ call.label = <<"S", "u", "m", "m", "e", "r", " ", "2", "0", "2", "5">>
    /\ answer.found
    /\ ~\E form \in SummerForms : Contains(form, call.text)
    /\ \E form \in OtherForms : Contains(form, call.text)

\* a line that is entirely upper-case, of length in [2, 30), not of the
\* exclusion vocabulary and without a location name
Qualifies(line) ==
    /\ \E n \in 1..Len(line) : IsUpperChar(line[n])
    /\ \A n \in 1..Len(line) : ~IsLowerChar(line[n])
    /\ Len(line) >= 2 /\ Len(line) < 30
    /\ line \notin Excluded
    /\ \A city \in Cities : ~Contains(city, line)

\* C26: the tags of a container text are the trimmed lines that qualify, a
\* line that occurs several times being one tag
TagsAreQualifyingLines ==
    call.fn = "tags" /\ answer.done =>
        /\ Range(answer.tags) = {Strip(line) : line \in {l \in Range(call.text) : Qualifies(Strip(l))}}
        /\ \A m, n \in 1..Len(answer.tags) : m # n => answer.tags[m] # answer.tags[n]
        /\ answer.joined = join(answer.tags)

----------------------------------------------------------------------------
(* The merge that adds nothing, and the merge into a missing store *)

\* the candidate has the title, or the link, of a row of the file
DuplicateOf(company, rows) ==
    \/ Normalize(company.title) \in RowTitles(rows)
    \/ /\ Normalize(company.linkedin_url) # <<>>
       /\ Normalize(company.linkedin_url) \in RowLinks(rows)

\* C29: a call of save_results with no candidate, or with candidates that
\* are all duplicates of rows of the store, does not open the store for
\* writing and leaves its content as it is
NoOpMergeUntouched ==
    [][(/\ mpc = "idle"
        /\ \/ companies' = <<>>
           \/ \A i \in 1..Len(companies') : DuplicateOf(companies'[i], data_csv.rows))
       => data_csv' = data_csv /\ mpc' = "idle" /\ pending' = <<>>]_vars

\* a call that returned with two candidates, both rejected
NoOpMergeWitness ==
    /\ mpc = "idle"
    /\ completed
    /\ Len(companies) = 2
    /\ new_companies = <<>>
    /\ data_csv = prev_csv
    /\ data_csv.rows # <<>>

\* the row of the file for a candidate that is written as it is
WrittenAs(company) == [Title |-> company.title, Link |-> company.linkedin_url, Desc |-> <<>>]

\* C30: a call with at least one candidate when there is no store file
\* accepts every candidate, and when it returns the file exists and holds
\* the candidates' rows, in the order of the candidates, and nothing else
MissingStoreCreated ==
    mpc = "idle" /\ completed /\ ~prev_csv.exists /\ companies # <<>> =>
        /\ new_companies = companies
        /\ data_csv.exists
        /\ data_csv.rows = [i \in 1..Len(companies) |-> WrittenAs(companies[i])]

\* a store created from two different candidates
MissingStoreWitness ==
    /\ mpc = "idle"
    /\ completed
    /\ ~prev_csv.exists
    /\ Len(companies) = 2
    /\ companies[1] # companies[2]
    /\ data_csv.exists
    /\ Len(data_csv.rows) = 2

----------------------------------------------------------------------------
(* The start of the LinkedIn run, and the partial files *)

\* C27: when the input file is missing or its table has no 'Linkedin Link'
\* column the run returns with no session started, no record processed and
\* no file written; and nothing that happens to a record ends the run
\* before the last record
ConfigErrorAborts ==
    /\ scraper = "li" /\ outcome.end \in {"missing_file", "no_link_column"} =>
          /\ spc = "done"
          /\ rec = 0
          /\ nsessions = 0
          /\ live = {}
          /\ results = <<>>
          /\ files = {}
    /\ scraper = "li" /\ spc \in {"done", "raised"}
           /\ outcome.end \notin {"missing_file", "no_link_column", "no_links"} =>
          /\ spc = "done"
          /\ Len(results) = urls

\* C28: for every multiple k of the period (20 for the YC batch, 10 for
\* the LinkedIn run) among the records processed there is a partial file
\* written after record k, and a partial file holds the records of the
\* inputs 1..k, those that failed too, in the order of processing
SnapshotsComplete ==
    LET every == IF scraper = "yc" THEN 20 ELSE 10
    IN /\ \A k \in 1..Len(results) :
              k % every = 0 => \E f \in files : f.kind = "partial" /\ f.upto = k
       /\ \A f \in files :
              f.kind = "partial" =>
                  /\ f.upto % every = 0
                  /\ f.upto <= Len(results)
                  /\ f.records = SubSeq(results, 1, f.upto)
                  /\ \A i \in 1..f.upto : f.records[i].rec = i

\* the second partial file of a LinkedIn run, with a record that failed
SnapshotsWitness ==
    /\ scraper = "li"
    /\ \E f \in files :
          /\ f.kind = "partial"
          /\ f.upto = 20
          /\ \E i \in 1..10 : ~f.records[i].success
          /\ \E i \in 1..10 : f.records[i].success

----------------------------------------------------------------------------
(* The success criterion of the YC retry operation *)

\* the attempts on the current record whose extraction gave a title together
\* with a short description or a company link
MetCriterion ==
    {n \in navs :
        /\ n.end = "extracted"
        /\ "title" \in n.fields
        /\ "short_description" \in n.fields \/ "company_link" \in n.fields}

\* C31: when extract_company_details_with_retry has returned, it returned
\* the data of the first attempt that met the criterion, having made no
\* attempt after it; it returned None iff no attempt met the criterion, and
\* then it had made all its attempts
SuccessCriterion ==
    (scraper = "yc" /\ spc = "loop" /\ rec > 0) =>
        /\ results[rec].success =>
              \E n \in MetCriterion :
                  /\ results[rec].fields = n.fields
                  /\ MetCriterion = {n}
                  /\ \A m \in navs : m.attempt <= n.attempt
                  /\ \A b \in starts : b.attempt <= n.attempt
        /\ ~results[rec].success <=> MetCriterion = {}
        /\ ~results[rec].success => SetupCalls = YcMaxRetries

\* the data returned by the last attempt, after an attempt that extracted
\* a title alone and one that found the page incomplete
SuccessCriterionWitness ==
    /\ scraper = "yc"
    /\ spc = "loop"
    /\ rec > 0
    /\ results[rec].success
    /\ \E n \in navs : n.end = "extracted" /\ n.fields = {"title"}
    /\ \E n \in navs : n.end = "incomplete_page"

----------------------------------------------------------------------------
(* The call of scrape_linkedin_company without a URL *)

\* C32: called with an empty or missing URL, scrape_linkedin_company starts
\* no session and makes no attempt, and returns a result without a follower
\* count or an indicator and with the error 'No LinkedIn URL provided'
MissingUrlShortCircuits ==
    (call.fn = "company" /\ call.text \in {<<>>, NaN} /\ spc # "call") =>
        /\ spc = "loop"
        /\ nsessions = 0
        /\ live = {}
        /\ starts = {}
        /\ navs = {}
        /\ results = <<[rec |-> 1, success |-> FALSE, fields |-> {},
                        error |-> "No LinkedIn URL provided"]>>

\* the call has returned for the missing value of a table cell
MissingUrlWitness ==
    /\ call.fn = "company"
    /\ call.text = NaN
    /\ spc = "loop"
    /\ Len(results) = 1

----------------------------------------------------------------------------
(* The pages of search_all_pages and its session *)

\* C33: search_all_pages attempts each of the pages 1 to 10 once, in
\* ascending order (page_num counts the pages attempted), on the session
\* opened at its start, and on every exit path that session has been quit
\* after the last page
SearchVisitsEveryPage ==
    (gpc = "done" /\ browser # "none") =>
        /\ page_num = NumPages
        /\ browser = "closed"

----------------------------------------------------------------------------
(* The scroll loop of get_all_company_urls *)

\* a scroll ends the loop exactly when its count is the count of the scroll
\* before it, or when it is the 50th counted scroll
StopsOnEqualOrCap ==
    (spc = "scrolling" /\ spc' \in {"scrolling", "collect"}) =>
        /\ spc' = "collect" <=>
              link_count' = last_count \/ scroll_attempts' = max_scrolls
        /\ link_count' # last_count =>
              scroll_attempts' = scroll_attempts + 1 /\ last_count' = link_count'

\* the URL list of a call that reached the loop is returned with the
\* session quit
QuitBeforeReturn ==
    (spc \in {"loop", "done"} /\ outcome.end = "urls") => live = {}

ListingReturned == spc \in {"loop", "done", "raised"}

\* C34, as stated: the loop of get_all_company_urls stops at the first
\* scroll whose count equals the count after the scroll before it (0 at
\* first), or after 50 scrolls that each increased the count; the call
\* always ends, and the session is quit before the URL list is returned
ListingLoopStopsIncreasing ==
    /\ [][StopsOnEqualOrCap]_vars
    /\ [](scroll_attempts = max_scrolls => rose)
    /\ [](scroll_attempts <= max_scrolls)
    /\ []QuitBeforeReturn
    /\ <>ListingReturned

\* C34, amended: the loop stops at the first scroll whose count equals the
\* count after the scroll before it (0 at first), or after 50 scrolls that
\* each changed the count, upwards or downwards; the call always ends, and
\* the session is quit before the URL list is returned
ListingLoopStops ==
    /\ [][StopsOnEqualOrCap]_vars
    /\ [](scroll_attempts <= max_scrolls)
    /\ []QuitBeforeReturn
    /\ <>ListingReturned

\* the list is returned after 50 scrolls, one of which lowered the count
ListingLoopWitness ==
    /\ spc = "loop"
    /\ outcome.end = "urls"
    /\ scroll_attempts = max_scrolls
    /\ ~rose

----------------------------------------------------------------------------
(* The file of save_to_csv *)

\* the records that are the first of their Title
FirstOfTitle ==
    {i \in 1..Len(scraped) : \A j \in 1..(i - 1) : scraped[j].Title # scraped[i].Title}

\* C35: the file save_to_csv writes has no two rows of the same Title; the
\* row of each Title is the first record of that Title in the input, and
\* the rows are in the order of the input
SavedTitlesUnique ==
    (yc_csv.called /\ yc_csv.exists) =>
        LET rows == yc_csv.rows
        IN /\ \A i, j \in 1..Len(rows) : rows[i].Title = rows[j].Title => i = j
           /\ \E f \in [1..Len(rows) -> 1..Len(scraped)] :
                 /\ \A i, j \in 1..Len(rows) : i < j => f[i] < f[j]
                 /\ {f[i] : i \in 1..Len(rows)} = FirstOfTitle
                 /\ \A i \in 1..Len(rows) :
                       /\ rows[i].Title = scraped[f[i]].Title
                       /\ rows[i].Desc = scraped[f[i]].Desc

\* a file written from three records, the third a different record of the
\* Title of the first
SavedTitlesWitness ==
    /\ yc_csv.called /\ yc_csv.exists
    /\ Len(scraped) = 3
    /\ scraped[1].Title = scraped[3].Title
    /\ scraped[1].Desc # scraped[3].Desc
    /\ scraped[2].Title # scraped[1].Title
    /\ Len(yc_csv.rows) = 2

----------------------------------------------------------------------------
(* The labels check_yc_batch_indicator does not know *)

\* the label is a text without 'Spring 2025', 'Summer 2025' and 'Winter 2025'
Unrecognised(label) ==
    /\ label # NaN
    /\ \A name \in {Spring2025, Summer2025, Winter2025} :
          \A n \in 0..(Len(label) - Len(name)) :
              SubSeq(label, n + 1, n + Len(name)) # name

\* C36: for a batch label that contains none of 'Spring 2025', 'Summer 2025'
\* and 'Winter 2025', check_yc_batch_indicator returns false for every
\* text, even one that contains the label
UnrecognisedLabelFalse ==
    (call.fn = "indicator" /\ answer.done /\ Unrecognised(call.label)) =>
        /\ ~answer.raised
        /\ ~answer.found

\* the call has returned for a text that contains its label 'Fall 2024'
UnrecognisedLabelWitness ==
    /\ call.fn = "indicator"
    /\ answer.done
    /\ call.label = <<"F", "a", "l", "l", " ", "2", "0", "2", "4">>
    /\ \E n \in 0..(Len(call.text) - Len(call.label)) :
          SubSeq(call.text, n + 1, n + Len(call.label)) = call.label
    /\ Len(call.text) > Len(call.label)
    /\ ~answer.found

====
